---- MODULE Spec2Model ----
(***************************************************************************)
(* A model of the needle neural-network layer library (python/needle/nn):  *)
(* the parameter registry and train/eval propagation of nn_basic.py, the   *)
(* BatchNorm layers, the convolution layer's padding and the attention     *)
(* layers' masks and shapes.                                               *)
(***************************************************************************)
EXTENDS Integers, Sequences, FiniteSets, TLC

(***************************************************************************)
(* The state.  The module covers five parts of the library, each with its  *)
(* own variables; an operation of one part leaves the others' alone.       *)
(***************************************************************************)

\* heap: the objects reachable from the root module; training: the
\* training flag of each module; lastToggle: the last eval()/train() call;
\* result: the last parameters() or forward call and what it returned.
VARIABLES heap, training, lastToggle, result

treeVars == <<heap, training, lastToggle, result>>

\* bnNet: the constructed network; bnTraining: the modules' training flags;
\* runningMean, runningVar, bnWeight, bnBias: the fields of bn; trainLog:
\* the avg and var that bn's training-mode forward calls computed so far,
\* in call order; bnLast: the last call, with the fields of bn before it.
VARIABLES bnNet, bnTraining, runningMean, runningVar, bnWeight, bnBias,
          trainLog, bnLast

bnVars == <<bnNet, bnTraining, runningMean, runningVar, bnWeight, bnBias,
            trainLog, bnLast>>

\* attn: the MultiHeadAttention module (causal, its Dropout's p as a
\* fraction, and the training flags of the module and of its Dropout);
\* attnIn: the q and k the caller holds; attnLast: the last forward call and
\* the mask and probabilities it made.
VARIABLES attn, attnIn, attnLast

attnVars == <<attn, attnIn, attnLast>>

\* conv: the Conv module; convIn: the NCHW tensor the caller holds;
\* convLast: the last forward call and what it returned.
\* layerArgs: the arguments AttentionLayer was constructed with; layer: the
\* fields it then holds; layerIn: the q, k and v the caller holds;
\* layerLast: the last forward call, the arguments passed and the result.
VARIABLES conv, convIn, convLast, layerArgs, layer, layerIn, layerLast

convVars == <<conv, convIn, convLast>>
layerVars == <<layerArgs, layer, layerIn, layerLast>>

vars == <<treeVars, bnVars, attnVars, convVars, layerVars>>

\* What the operations of each part leave unchanged.
TreeFrame == <<bnVars, attnVars, convVars, layerVars>>
BNFrame == <<treeVars, attnVars, convVars, layerVars>>
AttnFrame == <<treeVars, bnVars, convVars, layerVars>>
ConvFrame == <<treeVars, bnVars, attnVars, layerVars>>
LayerFrame == <<treeVars, bnVars, attnVars, convVars>>

(***************************************************************************)
(* Part 1: the module tree (nn_basic.py lines 10-74).                      *)
(*                                                                         *)
(* The heap holds MaxNodes objects.  Object n has a Python type kind and,  *)
(* when it is a Module or a container, the sequence of the objects it      *)
(* holds in iteration order: for a Module the values of its __dict__ in    *)
(* insertion order (the bool `training` that Module.__init__ stores first  *)
(* is a value of no registered type and is left out), for a dict its       *)
(* values, for a list, tuple or set its elements.  An object only holds    *)
(* objects with a larger id, so the structure is acyclic, and one object   *)
(* may be held from several places.                                        *)
(***************************************************************************)
MaxNodes == 4
MaxFields == 2

Nodes == 1..MaxNodes
Root == 1

LeafKinds == {"Parameter", "other"}
HolderKinds == {"Module", "dict", "list", "tuple", "set"}

\* All sequences over S of length at most n.
RECURSIVE SeqsUpTo(_, _)
SeqsUpTo(S, n) ==
  IF n = 0 THEN {<<>>}
  ELSE LET shorter == SeqsUpTo(S, n - 1)
       IN  shorter \cup {Append(s, x) : s \in {t \in shorter : Len(t) = n - 1}, x \in S}

\* The objects node n may be: a leaf, or a holder of later objects.
NodeChoices(n) ==
  IF n = Root
  THEN {[kind |-> "Module", items |-> s] : s \in SeqsUpTo((n + 1)..MaxNodes, MaxFields)}
  ELSE {[kind |-> k, items |-> <<>>] : k \in LeafKinds}
       \cup {[kind |-> k, items |-> s] :
               k \in HolderKinds, s \in SeqsUpTo((n + 1)..MaxNodes, MaxFields)}

\* All sequences of objects n..MaxNodes.
RECURSIVE Heaps(_)
Heaps(n) ==
  IF n > MaxNodes THEN {<<>>}
  ELSE {<<h>> \o rest : h \in NodeChoices(n), rest \in Heaps(n + 1)}

Range(s) == {s[i] : i \in 1..Len(s)}

\* The heaps a program builds: every object but the root is held by some
\* object constructed around it.
ModuleTrees ==
  {h \in Heaps(1) : \A n \in Nodes \ {Root} : \E k \in 1..(n - 1) : n \in Range(h[k].items)}

IsModule(n) == heap[n].kind = "Module"
IsParameter(n) == heap[n].kind = "Parameter"
Modules == {n \in Nodes : IsModule(n)}

\* _unpack_params(value) for the object n; UnpackAll(s) is the loop
\* `for v in ...: params += _unpack_params(v)` over the held objects s.
RECURSIVE UnpackParams(_), UnpackAll(_), UnpackAllReversed(_)
UnpackParams(n) ==
  CASE heap[n].kind = "Parameter" -> <<n>>
    [] heap[n].kind = "Module" -> UnpackAll(heap[n].items)
    [] heap[n].kind = "dict" -> UnpackAll(heap[n].items)
    [] heap[n].kind \in {"list", "tuple"} -> UnpackAll(heap[n].items)
    [] OTHER -> <<>>

\* A variant of the loop that prepends instead of appending.
UnpackAllReversed(s) ==
  IF s = <<>> THEN <<>> ELSE UnpackAllReversed(Tail(s)) \o UnpackParams(Head(s))

UnpackAll(s) ==
  IF s = <<>> THEN <<>> ELSE UnpackParams(Head(s)) \o UnpackAll(Tail(s))

\* Module.parameters: _unpack_params(self.__dict__)
Parameters(m) == UnpackAll(heap[m].items)

\* _child_modules(value) for the object n; ChildModulesAll(s) is the loop
\* `for v in ...: modules += _child_modules(v)` over the held objects s.
RECURSIVE ChildModules(_), ChildModulesAll(_)
\* A variant that does not descend into a found module's own __dict__.
ChildModulesShallow(n) ==
  CASE heap[n].kind = "Module" -> <<n>>
    [] heap[n].kind = "dict" -> ChildModulesAll(heap[n].items)
    [] heap[n].kind \in {"list", "tuple"} -> ChildModulesAll(heap[n].items)
    [] OTHER -> <<>>

ChildModules(n) ==
  CASE heap[n].kind = "Module" -> <<n>> \o ChildModulesAll(heap[n].items)
    [] heap[n].kind = "dict" -> ChildModulesAll(heap[n].items)
    [] heap[n].kind \in {"list", "tuple"} -> ChildModulesAll(heap[n].items)
    [] OTHER -> <<>>

ChildModulesAll(s) ==
  IF s = <<>> THEN <<>> ELSE ChildModules(Head(s)) \o ChildModulesAll(Tail(s))

\* Module._children: _child_modules(self.__dict__)
Children(m) == ChildModulesAll(heap[m].items)

\* A variant of the assignments that sets the flag of every module of the
\* tree, as one flag shared by all modules would.
SetTrainingEverywhere(m, b) ==
  [n \in Nodes |-> IF IsModule(n) THEN b ELSE training[n]]

\* The assignments of Module.eval / Module.train with flag b.
SetTraining(m, b) ==
  [n \in Nodes |-> IF n = m \/ n \in Range(Children(m)) THEN b ELSE training[n]]

TreeInit ==
  /\ heap \in ModuleTrees
  /\ training = [n \in Nodes |-> TRUE]
  /\ lastToggle = [op |-> "none", target |-> Root]
  /\ result = [op |-> "none", of |-> Root, params |-> <<>>]

\* m.eval()
Eval(m) ==
  /\ IsModule(m)
  /\ training' = SetTraining(m, FALSE)
  /\ lastToggle' = [op |-> "eval", target |-> m]
  /\ UNCHANGED <<heap, result>>
  /\ UNCHANGED TreeFrame

\* m.train()
Train(m) ==
  /\ IsModule(m)
  /\ training' = SetTraining(m, TRUE)
  /\ lastToggle' = [op |-> "train", target |-> m]
  /\ UNCHANGED <<heap, result>>
  /\ UNCHANGED TreeFrame

\* m.parameters()
CallParameters(m) ==
  /\ IsModule(m)
  /\ result' = [op |-> "parameters", of |-> m, params |-> Parameters(m)]
  /\ UNCHANGED <<heap, training, lastToggle>>
  /\ UNCHANGED TreeFrame

\* A variant of the forward call that ends by putting the module in
\* evaluation mode, as m.eval() does.
ForwardEvals(m) ==
  /\ IsModule(m)
  /\ result' = [op |-> "forward", of |-> m, params |-> <<>>]
  /\ training' = SetTraining(m, FALSE)
  /\ UNCHANGED <<heap, lastToggle>>
  /\ UNCHANGED TreeFrame

\* m(x): Module.__call__ runs m.forward, which in no class assigns a
\* training flag or changes which objects a module or container holds.
Forward(m) ==
  /\ IsModule(m)
  /\ result' = [op |-> "forward", of |-> m, params |-> <<>>]
  /\ UNCHANGED <<heap, training, lastToggle>>
  /\ UNCHANGED TreeFrame

TreeNext ==
  \/ \E m \in Nodes : Eval(m)
  \/ \E m \in Nodes : Train(m)
  \/ \E m \in Nodes : CallParameters(m)
  \/ \E m \in Nodes : Forward(m)

(***************************************************************************)
(* Claims about the module tree.                                           *)
(***************************************************************************)

\* The kinds the claims call a mapping, list or tuple, and Module itself:
\* what a field is looked through.
LooksThrough(n) == heap[n].kind \in {"Module", "dict", "list", "tuple"}

\* The least set holding S and what its looked-through members hold.
RECURSIVE HeldClosure(_)
HeldClosure(S) ==
  LET more == S \cup UNION {Range(heap[n].items) : n \in {x \in S : LooksThrough(x)}}
  IN  IF more = S THEN S ELSE HeldClosure(more)

\* The modules reachable from m through its fields, at any depth.
DescendantModules(m) == {n \in HeldClosure(Range(heap[m].items)) : IsModule(n)}

\* C1: after eval() on a module, it and every descendant module reachable
\* through its fields (directly or nested in dicts, lists or tuples) has
\* training = FALSE, and after train() every one has training = TRUE,
\* whatever train()/eval() calls came before; it stays so through the
\* parameters() and forward calls that follow.
C1_TogglePropagates ==
  /\ lastToggle.op = "eval" =>
       \A n \in {lastToggle.target} \cup DescendantModules(lastToggle.target) :
         training[n] = FALSE
  /\ lastToggle.op = "train" =>
       \A n \in {lastToggle.target} \cup DescendantModules(lastToggle.target) :
         training[n] = TRUE

\* C1 witness: eval() on the root reached a module that is no direct field
\* of the root, and a forward call followed.
C1_Witness ==
  /\ lastToggle = [op |-> "eval", target |-> Root]
  /\ result.op = "forward"
  /\ \E n \in DescendantModules(Root) :
       /\ n \notin Range(heap[Root].items)
       /\ training[n] = FALSE
  /\ \E c \in Range(heap[Root].items) : heap[c].kind \in {"dict", "list", "tuple"}

\* Index paths: the sequences of field/element positions of length 1..d.
RECURSIVE IndexPaths(_)
IndexPaths(d) ==
  IF d = 0 THEN {}
  ELSE LET shorter == IndexPaths(d - 1)
       IN  {<<i>> : i \in 1..MaxFields}
           \cup {Append(p, i) : p \in shorter, i \in 1..MaxFields}

\* The object the path p leads to from the object n, or 0 when a position
\* does not exist or an object on the way is not looked through.
RECURSIVE Follow(_, _)
Follow(n, p) ==
  IF p = <<>> THEN n
  ELSE IF LooksThrough(n) /\ Head(p) <= Len(heap[n].items)
       THEN Follow(heap[n].items[Head(p)], Tail(p))
       ELSE 0

\* The paths from m that end at a Parameter.
ParamPaths(m) ==
  {p \in IndexPaths(MaxNodes - 1) : Follow(m, p) # 0 /\ IsParameter(Follow(m, p))}

\* p comes before q in declaration order (lexicographic on positions).
RECURSIVE Before(_, _)
Before(p, q) ==
  IF p = <<>> THEN q # <<>>
  ELSE IF q = <<>> THEN FALSE
  ELSE IF Head(p) # Head(q) THEN Head(p) < Head(q)
  ELSE Before(Tail(p), Tail(q))

\* C2: parameters() returns the Parameters in declaration order,
\* depth-first: the k-th entry is the Parameter at the k-th path in
\* declaration order; it depends on the tree alone, so repeated calls on an
\* unchanged tree return the same sequence.
C2_DeclarationOrder ==
  result.op = "parameters" =>
    LET paths == ParamPaths(result.of)
    IN  /\ Len(result.params) = Cardinality(paths)
        /\ \A p \in paths :
             result.params[1 + Cardinality({q \in paths : Before(q, p)})]
               = Follow(result.of, p)

\* C2 witness: a call returned two different Parameters, one of them from
\* inside a container.
C2_Witness ==
  /\ result.op = "parameters"
  /\ Cardinality(Range(result.params)) >= 2
  /\ \E p \in ParamPaths(result.of) : Len(p) >= 2

\* C3: a Parameter referenced from two places of the tree appears exactly
\* once in the sequence parameters() returns.
C3_NoRevisit ==
  result.op = "parameters" =>
    \A i, j \in 1..Len(result.params) :
      result.params[i] = result.params[j] => i = j

\* C11: construction leaves every training flag True, and train() and
\* eval() are the only operations that change a flag: a forward or
\* parameters() call changes no module's flag, and a step that changes a
\* flag is a train() or eval() call, which gives the flags it changes the
\* value it sets.
C11_OnlyTogglesChangeFlags ==
  [][/\ result' # result => training' = training
     /\ training' # training =>
          /\ result' = result
          /\ lastToggle'.op \in {"eval", "train"}
          /\ \A n \in Nodes :
               training'[n] # training[n] => training'[n] = (lastToggle'.op = "train")
     /\ lastToggle'.op = "none" => \A n \in Nodes : training'[n] = TRUE]_vars

\* C11 witness: after an eval() on a module other than the root, with the
\* flags of the tree no longer all alike, a forward call was made on the
\* root and left them so.
C11_Witness ==
  /\ lastToggle.op = "eval"
  /\ lastToggle.target # Root
  /\ result = [op |-> "forward", of |-> Root, params |-> <<>>]
  /\ training[Root] = TRUE
  /\ \E n \in DescendantModules(Root) : training[n] = FALSE

\* The least set holding S and what its members hold, a set being looked
\* through as a dict, list or tuple is.
RECURSIVE HeldClosureAny(_)
HeldClosureAny(S) ==
  LET more == S \cup UNION {Range(heap[n].items) :
                              n \in {x \in S : heap[x].kind \in HolderKinds}}
  IN  IF more = S THEN S ELSE HeldClosureAny(more)

\* C12: a Parameter or Module held in any container field of a module, a
\* set included, contributes to parameters() and is reached by train() and
\* eval(): parameters() lists every Parameter so held at any depth, and
\* after a toggle every Module so held has the flag the toggle set.
C12_SetsUnpacked ==
  /\ result.op = "parameters" =>
       \A n \in HeldClosureAny(Range(heap[result.of].items)) :
         IsParameter(n) => n \in Range(result.params)
  /\ lastToggle.op \in {"eval", "train"} =>
       \A n \in HeldClosureAny(Range(heap[lastToggle.target].items)) :
         IsModule(n) => training[n] = (lastToggle.op = "train")

\* C13: a train() or eval() call on a module M changes the flags of M and
\* of M's descendants only (the modules reachable through its fields,
\* directly or nested in dicts, lists or tuples); the flags of M's ancestors
\* and of the modules outside M's subtree stay as they were, so a train()
\* on a module other than the root that follows root.eval() leaves the
\* root's flag False and every module of the called module's subtree True.
C13_SubtreeOnly ==
  [][/\ training' # training =>
          \A n \in Nodes \ ({lastToggle'.target} \cup DescendantModules(lastToggle'.target)) :
            training'[n] = training[n]
     /\ ( /\ lastToggle = [op |-> "eval", target |-> Root]
          /\ lastToggle'.op = "train"
          /\ lastToggle'.target # Root ) =>
          /\ training'[Root] = FALSE
          /\ \A n \in {lastToggle'.target} \cup DescendantModules(lastToggle'.target) :
               training'[n] = TRUE]_vars

\* C13 witness: after root.eval(), train() was called on a module the root
\* holds, which itself holds a module; the root and a module beside the
\* called one are still in evaluation mode, the called module's subtree is
\* in training mode.
C13_Witness ==
  /\ lastToggle.op = "train"
  /\ lastToggle.target \in DescendantModules(Root)
  /\ DescendantModules(lastToggle.target) # {}
  /\ \A n \in {lastToggle.target} \cup DescendantModules(lastToggle.target) : training[n] = TRUE
  /\ training[Root] = FALSE
  /\ \E n \in DescendantModules(Root) \ ({lastToggle.target} \cup DescendantModules(lastToggle.target)) :
       training[n] = FALSE

(***************************************************************************)
(* Part 2: BatchNorm1d / BatchNorm2d and Sequential (nn_basic.py lines     *)
(* 129-186).                                                               *)
(*                                                                         *)
(* Tensor entries are exact rationals [n, d] with d > 0 in lowest terms.   *)
(* A matrix is a sequence of rows.  The normalised output entry            *)
(* (x - mean) / (var + eps) ** 0.5 * weight + bias is kept as the record   *)
(* of its four operands, so two outputs are equal when their operands are. *)
(***************************************************************************)
RECURSIVE GCD(_, _)
GCD(a, b) == IF b = 0 THEN a ELSE GCD(b, a % b)

Abs(a) == IF a < 0 THEN -a ELSE a

\* The rational n/d in lowest terms (d > 0); g is the gcd of |n| and d.
Reduced(n, d, g) == [n |-> n \div g, d |-> d \div g]
Rat(n, d) == Reduced(n, d, GCD(Abs(n), d))

RInt(k) == [n |-> k, d |-> 1]
\* a + b over the least common denominator; g is the gcd of the denominators.
AddOver(a, b, g) == Rat(a.n * (b.d \div g) + b.n * (a.d \div g), (a.d \div g) * b.d)
RAdd(a, b) == AddOver(a, b, GCD(a.d, b.d))
RSub(a, b) == RAdd(a, [n |-> -b.n, d |-> b.d])
RMul(a, b) == Rat(a.n * b.n, a.d * b.d)
RDivInt(a, k) == Rat(a.n, a.d * k)

\* BatchNorm1d.__init__ arguments: dim, and the defaults momentum = 0.1 and
\* eps = 1e-5 as fractions.
Dim == 2
MomentumNum == 1
MomentumDen == 10
EpsNum == 1
EpsDen == 100000
Momentum == Rat(MomentumNum, MomentumDen)
OneMinusMomentum == RSub(RInt(1), Momentum)
Eps == Rat(EpsNum, EpsDen)

\* Bounds on the inputs: batch sizes 1..MaxBatch, entries 0..MaxVal, and at
\* most MaxCalls training-mode forward calls.
MaxBatch == 2
MaxVal == 1
MaxCalls == 2

Features == 1..Dim

\* All rows of the given width / all matrices of the given shape.
Rows(width) == [1..width -> 0..MaxVal]
Matrices(batch, width) == [1..batch -> Rows(width)]

\* The inputs of a 2-D forward call: every batch of dim features, and one
\* batch of each size with a feature too many.
Inputs1d ==
  UNION {Matrices(b, Dim) : b \in 1..MaxBatch}
  \cup {[i \in 1..b |-> [f \in 1..(Dim + 1) |-> 0]] : b \in 1..MaxBatch}

Width(x) == Len(x[1])

RECURSIVE SumUpTo(_, _)
\* f[1] + ... + f[k] for a sequence of rationals.
SumUpTo(f, k) == IF k = 0 THEN RInt(0) ELSE RAdd(SumUpTo(f, k - 1), f[k])

\* avg = x.sum(axes=0) / batch
BatchAvg(x) ==
  [f \in 1..Width(x) |->
     RDivInt(SumUpTo([i \in 1..Len(x) |-> RInt(x[i][f])], Len(x)), Len(x))]

\* ((x - avg) ** 2).sum(axes=0) / batch for the given avg
VarAbout(x, avg) ==
  [f \in 1..Width(x) |->
     RDivInt(SumUpTo([i \in 1..Len(x) |->
                        RMul(RSub(RInt(x[i][f]), avg[f]), RSub(RInt(x[i][f]), avg[f]))],
                     Len(x)),
             Len(x))]

\* var = ((x - avg.reshape(...).broadcast_to(x.shape)) ** 2).sum(axes=0) / batch
BatchVar(x) == VarAbout(x, BatchAvg(x))

\* The well-shaped batches, and the two statistics of each.
Batches == UNION {Matrices(b, Dim) : b \in 1..MaxBatch}
AvgOf == [x \in Batches |-> BatchAvg(x)]
VarOf == [x \in Batches |-> VarAbout(x, AvgOf[x])]

\* A variant of the update with the two weights exchanged.
RunningUpdateSwapped(running, stat) ==
  [f \in Features |->
     RAdd(RMul(running[f], Momentum), RMul(stat[f], OneMinusMomentum))]

\* running * (1 - momentum) + stat * momentum
RunningUpdate(running, stat) ==
  [f \in Features |->
     RAdd(RMul(running[f], OneMinusMomentum), RMul(stat[f], Momentum))]

\* (x - mean) / (var + eps) ** 0.5 * weight + bias, entry by entry.
Normalize(x, mean, var, weight, bias) ==
  [i \in 1..Len(x) |->
     [f \in Features |->
        [centered |-> RSub(RInt(x[i][f]), mean[f]),
         radicand |-> RAdd(var[f], Eps),
         weight |-> weight[f],
         bias |-> bias[f]]]]

\* A variant of the output that normalises with the batch statistics in
\* both modes.
BN1dOutputBatchOnly(tr, x, rm, rv, weight, bias) ==
  Normalize(x, AvgOf[x], VarOf[x], weight, bias)

\* What BatchNorm1d.forward returns: line 173 in training mode, line 175 in
\* evaluation mode.
BN1dOutput(tr, x, rm, rv, weight, bias) ==
  IF tr THEN Normalize(x, AvgOf[x], VarOf[x], weight, bias)
  ELSE Normalize(x, rm, rv, weight, bias)

\* A variant of the statistics update that ignores the training flag.
BN1dStatsAlways(tr, x, rm, rv) ==
  [mean |-> RunningUpdate(rm, AvgOf[x]), var |-> RunningUpdate(rv, VarOf[x])]

\* The running statistics BatchNorm1d.forward leaves (lines 168-172).
BN1dStats(tr, x, rm, rv) ==
  IF tr
  THEN [mean |-> RunningUpdate(rm, AvgOf[x]), var |-> RunningUpdate(rv, VarOf[x])]
  ELSE [mean |-> rm, var |-> rv]

\* BatchNorm1d.forward on a 2-D x: the reshape of a per-feature vector to
\* (1, dim) raises unless x has dim features, before anything is assigned.
BN1dForward(tr, x, rm, rv, weight, bias) ==
  IF Width(x) # Dim
  THEN [status |-> "raised", stats |-> [mean |-> rm, var |-> rv], out |-> <<>>]
  ELSE [status |-> "ok",
        stats |-> BN1dStats(tr, x, rm, rv),
        out |-> BN1dOutput(tr, x, rm, rv, weight, bias)]

\* Tensor.transpose((1, 2)) and ((2, 3)) on a 4-D tensor held as nested
\* sequences.
Transpose12(t) ==
  [a \in 1..Len(t) |-> [c \in 1..Len(t[a][1]) |-> [b \in 1..Len(t[a]) |-> t[a][b][c]]]]
Transpose23(t) ==
  [a \in 1..Len(t) |-> [b \in 1..Len(t[a]) |->
     [d \in 1..Len(t[a][b][1]) |-> [c \in 1..Len(t[a][b]) |-> t[a][b][c][d]]]]]

\* reshape of a (s0, s1, s2, s3) tensor to (s0 * s1 * s2, s3), row-major.
ReshapeTo2d(t) ==
  LET s1 == Len(t[1])
      s2 == Len(t[1][1])
  IN  [r \in 1..(Len(t) * s1 * s2) |->
         t[((r - 1) \div (s1 * s2)) + 1][(((r - 1) \div s2) % s1) + 1][((r - 1) % s2) + 1]]

\* reshape of a (s0 * s1 * s2, s3) matrix to (s0, s1, s2, s3), row-major.
ReshapeTo4d(y, s0, s1, s2) ==
  [a \in 1..s0 |-> [b \in 1..s1 |-> [c \in 1..s2 |->
     y[((a - 1) * s1 + (b - 1)) * s2 + c]]]]

\* The 4-D inputs of BatchNorm2d: (N, dim, H, W) with N * H * W <= MaxBatch.
Inputs2d ==
  UNION {[1..n -> [1..Dim -> [1..h -> [1..w -> 0..MaxVal]]]] :
           <<n, h, w>> \in {q \in (1..MaxBatch) \X (1..MaxBatch) \X (1..MaxBatch) :
                              q[1] * q[2] * q[3] <= MaxBatch}}

\* BatchNorm2d.forward line 184: nchw -> nhcw -> nhwc -> (n*h*w, c)
Flatten2d(x) == ReshapeTo2d(Transpose23(Transpose12(x)))

\* BatchNorm2d.forward lines 185-186 on the 2-D result y.
Unflatten2d(y, x) ==
  Transpose12(Transpose23(ReshapeTo4d(y, Len(x), Len(x[1][1]), Len(x[1][1][1]))))

\* The modules of the network: net = Sequential(bn, lin), with bn a
\* BatchNorm1d(Dim) and lin a Linear(linIn, LinOut); or bn alone, a
\* BatchNorm2d(Dim).
BNModules == {"seq", "bn", "lin"}
LinOut == 1

\* _child_modules on the network: Sequential holds (bn, lin) in the tuple
\* self.modules; bn and lin hold no modules.
BNChildren(m) == IF m = "seq" THEN {"bn", "lin"} ELSE {}

\* The record of a call: the fields of bn as the call found them.
CallRecord(op, status, x, out) ==
  [op |-> op, status |-> status, tr |-> bnTraining["bn"], x |-> x, out |-> out,
   preMean |-> runningMean, preVar |-> runningVar,
   preWeight |-> bnWeight, preBias |-> bnBias]

BNInit ==
  /\ bnNet \in {[cls |-> "BatchNorm1d", linIn |-> Dim],
                [cls |-> "BatchNorm1d", linIn |-> Dim + 1],
                [cls |-> "BatchNorm2d", linIn |-> Dim]}
  /\ bnTraining = [m \in BNModules |-> TRUE]
  /\ runningMean = [f \in Features |-> RInt(0)]
  /\ runningVar = [f \in Features |-> RInt(1)]
  /\ bnWeight = [f \in Features |-> 1]
  /\ bnBias = [f \in Features |-> 0]
  /\ trainLog = <<>>
  /\ bnLast = CallRecord("none", "ok", <<>>, <<>>)

\* The modules train()/eval()/parameters() may be called on.
BNTargets == IF bnNet.cls = "BatchNorm1d" THEN {"seq", "bn"} ELSE {"bn"}

\* m.eval() / m.train() with flag b
BNSetTraining(m, b) ==
  /\ m \in BNTargets
  /\ bnTraining' = [n \in BNModules |-> IF n = m \/ n \in BNChildren(m) THEN b ELSE bnTraining[n]]
  /\ bnLast' = CallRecord(IF b THEN "train" ELSE "eval", "ok", <<>>, <<>>)
  /\ UNCHANGED <<bnNet, runningMean, runningVar, bnWeight, bnBias, trainLog>>
  /\ UNCHANGED BNFrame

\* m.parameters(): bn holds weight and bias (running_mean and running_var
\* are plain tensors), lin holds weight and bias.
BNParameterNames(m) ==
  CASE m = "bn" -> <<"bn.weight", "bn.bias">>
    [] m = "lin" -> <<"lin.weight", "lin.bias">>
    [] OTHER -> <<"bn.weight", "bn.bias", "lin.weight", "lin.bias">>

BNParameters(m) ==
  /\ m \in BNTargets
  /\ bnLast' = CallRecord("parameters", "ok", <<>>, BNParameterNames(m))
  /\ UNCHANGED <<bnNet, bnTraining, runningMean, runningVar, bnWeight, bnBias,
                 trainLog>>
  /\ UNCHANGED BNFrame

\* The training-mode forward calls are capped at MaxCalls.
MayForward(x) == bnTraining["bn"] /\ Width(x) = Dim => Len(trainLog) < MaxCalls

\* The effect of bn's BatchNorm1d.forward on the 2-D input x, given its result r.
BNAssign(x, r) ==
  /\ runningMean' = r.stats.mean
  /\ runningVar' = r.stats.var
  /\ trainLog' = IF bnTraining["bn"] /\ r.status = "ok"
                 THEN Append(trainLog, [avg |-> AvgOf[x], var |-> VarOf[x]])
                 ELSE trainLog
  /\ UNCHANGED <<bnNet, bnTraining, bnWeight, bnBias>>

\* bn(x), bn a BatchNorm1d
ForwardBN1d(x) ==
  /\ bnNet.cls = "BatchNorm1d"
  /\ MayForward(x)
  /\ \E r \in {BN1dForward(bnTraining["bn"], x, runningMean, runningVar, bnWeight, bnBias)} :
       /\ BNAssign(x, r)
       /\ bnLast' = CallRecord("forward", r.status, x, r.out)
  /\ UNCHANGED BNFrame

\* Linear.forward on a 2-D input with the given number of columns: X @
\* weight raises unless the columns are in_features; the result has shape
\* (batch, out_features).
LinearForward(batch, width) ==
  IF width # bnNet.linIn
  THEN [status |-> "raised", shape |-> <<>>]
  ELSE [status |-> "ok", shape |-> <<batch, LinOut>>]

\* net(x): Sequential.forward runs bn, then lin on bn's result.
ForwardSequential(x) ==
  /\ bnNet.cls = "BatchNorm1d"
  /\ MayForward(x)
  /\ \E r \in {BN1dForward(bnTraining["bn"], x, runningMean, runningVar, bnWeight, bnBias)} :
     \E l \in {LinearForward(Len(x), Dim)} :
       /\ BNAssign(x, r)
       /\ bnLast' = IF r.status = "raised"
                    THEN CallRecord("forward_seq", "raised", x, <<>>)
                    ELSE CallRecord("forward_seq", l.status, x, l.shape)
  /\ UNCHANGED BNFrame

\* bn(x), bn a BatchNorm2d and x a 4-D tensor
ForwardBN2d(x) ==
  /\ bnNet.cls = "BatchNorm2d"
  /\ \E x2 \in {Flatten2d(x)} :
       /\ MayForward(x2)
       /\ \E r \in {BN1dForward(bnTraining["bn"], x2, runningMean, runningVar,
                                 bnWeight, bnBias)} :
            /\ BNAssign(x2, r)
            /\ bnLast' = CallRecord("forward_2d", r.status, x2,
                                    IF r.status = "ok" THEN Unflatten2d(r.out, x) ELSE <<>>)
  /\ UNCHANGED BNFrame

BNNext ==
  \/ \E m \in BNModules : BNSetTraining(m, FALSE)
  \/ \E m \in BNModules : BNSetTraining(m, TRUE)
  \/ \E m \in BNModules : BNParameters(m)
  \/ \E x \in Inputs1d : ForwardBN1d(x)
  \/ \E x \in Inputs1d : ForwardSequential(x)
  \/ \E x \in Inputs2d : ForwardBN2d(x)

(***************************************************************************)
(* Claims about BatchNorm.                                                 *)
(***************************************************************************)
ForwardOps == {"forward", "forward_seq", "forward_2d"}

\* C4: running_mean and running_var are changed only by a forward call made
\* while bn's training flag is True: a call that left either different from
\* what it found was such a forward call, so an evaluation-mode forward
\* (BatchNorm1d or BatchNorm2d) and every train(), eval() and parameters()
\* call leave both unchanged.
C4_RunningStatsFrame ==
  (runningMean # bnLast.preMean \/ runningVar # bnLast.preVar) =>
    (bnLast.op \in ForwardOps /\ bnLast.tr)

\* C4 witness: an evaluation-mode forward call, made after a training-mode
\* call had moved the running statistics, left them as it found them.
C4_Witness ==
  /\ bnLast.op \in {"forward", "forward_2d"}
  /\ bnLast.status = "ok"
  /\ ~bnLast.tr
  /\ Len(trainLog) >= 1
  /\ runningMean # [f \in Features |-> RInt(0)]
  /\ runningMean = bnLast.preMean
  /\ runningVar = bnLast.preVar

\* C5: a forward call that fails leaves running_mean, running_var and every
\* Parameter as they were before the call, also on a composite module.
C5_FailsAtomically ==
  bnLast.status = "raised" =>
    /\ runningMean = bnLast.preMean
    /\ runningVar = bnLast.preVar
    /\ bnWeight = bnLast.preWeight
    /\ bnBias = bnLast.preBias

\* The per-feature mean and (population) variance of a batch, computed as
\* sum / n and sum of squares / n - mean ** 2.
MeanOf(x) ==
  [f \in Features |-> Rat(SumUpTo([i \in 1..Len(x) |-> RInt(x[i][f])], Len(x)).n, Len(x))]
VarianceOf(x) ==
  [f \in Features |->
     RSub(Rat(SumUpTo([i \in 1..Len(x) |-> RInt(x[i][f] * x[i][f])], Len(x)).n, Len(x)),
          RMul(MeanOf(x)[f], MeanOf(x)[f]))]

\* running * (1 - momentum) + stat * momentum, with momentum = 1/10.
Blend(running, stat) ==
  RAdd(RMul(running, Rat(MomentumDen - MomentumNum, MomentumDen)),
       RMul(stat, Rat(MomentumNum, MomentumDen)))

\* The running mean / variance after the first k logged training calls,
\* starting from 0 / 1.
RECURSIVE MeanAfter(_), VarAfter(_)
MeanAfter(k) ==
  IF k = 0 THEN [f \in Features |-> RInt(0)]
  ELSE [f \in Features |-> Blend(MeanAfter(k - 1)[f], trainLog[k].avg[f])]
VarAfter(k) ==
  IF k = 0 THEN [f \in Features |-> RInt(1)]
  ELSE [f \in Features |-> Blend(VarAfter(k - 1)[f], trainLog[k].var[f])]

TrainingForwardDone == bnLast.op \in ForwardOps /\ bnLast.tr /\ Width(bnLast.x) = Dim

\* C7: each training-mode forward call sets running_mean to
\* running_mean * (1 - momentum) + batch_mean * momentum and running_var
\* likewise, with the batch's per-feature mean and variance and the running
\* values from before the call; from running_mean = 0 and running_var = 1,
\* after n calls they are the n-fold application of the update in call order.
C7_RunningUpdate ==
  /\ runningMean = MeanAfter(Len(trainLog))
  /\ runningVar = VarAfter(Len(trainLog))
  /\ TrainingForwardDone =>
       /\ trainLog[Len(trainLog)] = [avg |-> MeanOf(bnLast.x), var |-> VarianceOf(bnLast.x)]
       /\ \A f \in Features :
            /\ runningMean[f] = Blend(bnLast.preMean[f], MeanOf(bnLast.x)[f])
            /\ runningVar[f] = Blend(bnLast.preVar[f], VarianceOf(bnLast.x)[f])

\* C7 witness: a second training-mode BatchNorm1d call, on a batch with a
\* non-zero variance and statistics unlike those of the first call.
C7_Witness ==
  /\ bnLast.op = "forward"
  /\ TrainingForwardDone
  /\ Len(trainLog) = 2
  /\ trainLog[1] # trainLog[2]
  /\ \E f \in Features : trainLog[2].var[f].n # 0

\* C8: in evaluation mode BatchNorm1d normalises with running_mean and
\* running_var, so the output row of a sample depends only on the sample and
\* on running_mean, running_var, weight and bias: every batch holding the
\* same sample gives the same output row for it; in training mode the
\* output is computed from the current batch's mean and variance.
C8_EvalUsesRunningStats ==
  (bnLast.op = "forward" /\ bnLast.status = "ok") =>
    IF bnLast.tr
    THEN \A i \in 1..Len(bnLast.x) : \A f \in Features :
           /\ bnLast.out[i][f].centered = RSub(RInt(bnLast.x[i][f]), MeanOf(bnLast.x)[f])
           /\ bnLast.out[i][f].radicand = RAdd(VarianceOf(bnLast.x)[f], Eps)
    ELSE /\ \A i \in 1..Len(bnLast.x) : \A f \in Features :
              /\ bnLast.out[i][f].centered = RSub(RInt(bnLast.x[i][f]), runningMean[f])
              /\ bnLast.out[i][f].radicand = RAdd(runningVar[f], Eps)
         /\ \A i \in 1..Len(bnLast.x) : \A y \in Batches : \A j \in 1..Len(y) :
              y[j] = bnLast.x[i] =>
                BN1dOutput(FALSE, y, runningMean, runningVar, bnWeight, bnBias)[j]
                  = bnLast.out[i]

\* C8 witness: an evaluation-mode call on a batch of two different samples,
\* whose own mean differs from the running mean a training call has left.
C8_Witness ==
  /\ bnLast.op = "forward"
  /\ bnLast.status = "ok"
  /\ ~bnLast.tr
  /\ Len(trainLog) >= 1
  /\ Len(bnLast.x) = 2
  /\ bnLast.x[1] # bnLast.x[2]
  /\ MeanOf(bnLast.x) # runningMean

(***************************************************************************)
(* Part 3: MultiHeadAttention on values (nn_transformer.py lines 19-120,   *)
(* Dropout at nn_basic.py lines 214-227).                                  *)
(*                                                                         *)
(* A (batch, head, queries, keys) tensor is held as t[s][i][j], s running  *)
(* over the batch * head slices.  Entries are exact rationals; float32 is  *)
(* modelled where the code relies on it: -FloatMax stands for              *)
(* -np.finfo(np.float32).max, sums saturate at it, and exp of anything at  *)
(* or below -ExpUnderflow is exactly 0.  Powers of two stand in for powers *)
(* of e.                                                                   *)
(***************************************************************************)
FloatMax == 1000000000
ExpUnderflow == 104

\* The head dimension q_dim of the inputs; q_dim ** 0.5 is then exactly 1.
HeadDim == 1

\* Bounds: batch * head slices, sequence length, entries of q and k.
MaxSlices == 2
MaxSeq == 3
MaxScore == 1

RDiv(a, b) == Rat(a.n * b.d, a.d * b.n)

\* np.triu(np.ones((1, 1, i, j)), k)[r][c]: 1 where c - r >= k, else 0
Triu(i, j, k) == [r \in 1..i |-> [c \in 1..j |-> IF c - r >= k THEN 1 ELSE 0]]

\* A variant of the mask that also covers the diagonal.
CreateCausalMaskDiagonal(i, j) ==
  [r \in 1..i |-> [c \in 1..j |-> -FloatMax * Triu(i, j, j - i)[r][c]]]

\* MultiHeadAttention.create_causal_mask(i, j, device)
CreateCausalMask(i, j) ==
  [r \in 1..i |-> [c \in 1..j |-> -FloatMax * Triu(i, j, j - i + 1)[r][c]]]

\* float32 addition of a score and a mask entry: the sum, kept within
\* [-FloatMax, FloatMax].
FloatAdd(a, b) ==
  IF a + b < -FloatMax THEN -FloatMax ELSE IF a + b > FloatMax THEN FloatMax ELSE a + b

RECURSIVE DotUpTo(_, _, _)
\* a[1] * b[1] + ... + a[n] * b[n]
DotUpTo(a, b, n) == IF n = 0 THEN 0 ELSE DotUpTo(a, b, n - 1) + a[n] * b[n]

\* MultiHeadAttention.matmul(a, b_transpose): per slice, out[i][j] is the sum
\* over the last axis of a[i][.] * b_transpose[j][.].
MatMul(a, bT) ==
  [s \in 1..Len(a) |-> [i \in 1..Len(a[s]) |-> [j \in 1..Len(bT[s]) |->
     DotUpTo(a[s][i], bT[s][j], Len(a[s][i]))]]]

Max2(a, b) == IF a > b THEN a ELSE b

RECURSIVE MaxUpTo(_, _)
\* the largest of row[1..n]
MaxUpTo(row, n) == IF n = 1 THEN row[1] ELSE Max2(MaxUpTo(row, n - 1), row[n])

RECURSIVE Pow2(_)
Pow2(n) == IF n = 0 THEN 1 ELSE 2 * Pow2(n - 1)

\* ops.exp(d) for d <= 0 on float32.
Exp(d) == IF d <= -ExpUnderflow THEN RInt(0) ELSE Rat(1, Pow2(-d))

\* The row exp(row - max(row)), entry by entry.
ExpRow(row, m) == [j \in 1..Len(row) |-> Exp(row[j] - m)]

\* A row divided by its sum.
Over(w, denom) == [j \in 1..Len(w) |-> RDiv(w[j], denom)]
OverSum(w) == Over(w, SumUpTo(w, Len(w)))

\* MultiHeadAttention.softmax(logit): along the key axis.
Softmax(logit) ==
  [s \in 1..Len(logit) |-> [i \in 1..Len(logit[s]) |->
     OverSum(ExpRow(logit[s][i], MaxUpTo(logit[s][i], Len(logit[s][i]))))]]

\* Dropout.forward(x) with the Bernoulli sample keep (init.randb) and
\* p = pNum / pDen < 1: x * keep / (1 - p) in training mode, else x.
DropoutForward(tr, x, keep, pNum, pDen) ==
  IF tr
  THEN [s \in 1..Len(x) |-> [i \in 1..Len(x[s]) |-> [j \in 1..Len(x[s][i]) |->
          RDiv(RMul(x[s][i][j], RInt(keep[s][i][j])), Rat(pDen - pNum, pDen))]]]
  ELSE x

\* logits + mask.reshape(...).broadcast_to(logits.shape)
AddMask(logits, mask) ==
  [s \in 1..Len(logits) |-> [i \in 1..Len(logits[s]) |-> [j \in 1..Len(logits[s][i]) |->
     FloatAdd(logits[s][i][j], mask[i][j])]]]

\* The probability tensor MultiHeadAttention.forward returns (lines 110-117)
\* for the scores q @ k^T / sqrt(q_dim) of q and k.
AttentionProbs(causal, tr, q, k, keep, pNum, pDen) ==
  DropoutForward(tr,
                 Softmax(IF causal
                         THEN AddMask(MatMul(q, k), CreateCausalMask(Len(q[1]), Len(k[1])))
                         ELSE MatMul(q, k)),
                 keep, pNum, pDen)

\* The inputs: q and k of one shape (slices, L, HeadDim).
QKInputs(n, len) == [1..n -> [1..len -> [1..HeadDim -> 0..MaxScore]]]

\* The samples init.randb may give: with keep probability 1 every entry is
\* kept; otherwise all kept, none kept, or every other entry kept.
KeepSamples(n, len, pNum) ==
  {[s \in 1..n |-> [i \in 1..len |-> [j \in 1..len |-> 1]]]}
  \cup IF pNum = 0 THEN {}
       ELSE {[s \in 1..n |-> [i \in 1..len |-> [j \in 1..len |-> 0]]],
             [s \in 1..n |-> [i \in 1..len |-> [j \in 1..len |-> (s + i + j) % 2]]]}

NoForward == [op |-> "none", tr |-> TRUE, mask |-> <<>>, probs |-> <<>>]

AttnInit ==
  /\ attn \in {[causal |-> c, pNum |-> pn, pDen |-> 2, training |-> TRUE, dropTraining |-> TRUE] :
                 c \in BOOLEAN, pn \in {0, 1}}
  /\ \E n \in 1..MaxSlices, len \in 1..MaxSeq :
       attnIn \in [slices : {n}, len : {len}, q : QKInputs(n, len), k : QKInputs(n, len)]
  /\ attnLast = NoForward

\* attn.eval() / attn.train(): the module's flag and its Dropout's.
AttnSetTraining(b) ==
  /\ attn' = [attn EXCEPT !.training = b, !.dropTraining = b]
  /\ attnLast' = NoForward
  /\ UNCHANGED attnIn
  /\ UNCHANGED AttnFrame

\* attn(q, k, v) with queries_len = keys_values_len; keep is the sample
\* Dropout draws in this call.
AttnForward(keep) ==
  /\ attnLast' = [op |-> "forward", tr |-> attn.dropTraining,
                  mask |-> IF attn.causal
                           THEN CreateCausalMask(attnIn.len, attnIn.len) ELSE <<>>,
                  probs |-> AttentionProbs(attn.causal, attn.dropTraining, attnIn.q,
                                           attnIn.k, keep, attn.pNum, attn.pDen)]
  /\ UNCHANGED <<attn, attnIn>>
  /\ UNCHANGED AttnFrame

AttnNext ==
  \/ AttnSetTraining(FALSE)
  \/ AttnSetTraining(TRUE)
  \/ \E keep \in KeepSamples(attnIn.slices, attnIn.len, attn.pNum) : AttnForward(keep)

\* C6: with causal = True and queries_len = keys_len = L the mask is
\* large-negative exactly at the positions (i, j) with j > i and zero where
\* j <= i, and the returned probability at (i, j) is 0 for all j > i, in
\* every slice, with dropout applied (training) and not (evaluation).
C6_CausalMask ==
  (attnLast.op = "forward" /\ attn.causal) =>
    /\ \A i, j \in 1..attnIn.len :
         attnLast.mask[i][j] = IF j > i THEN -FloatMax ELSE 0
    /\ \A s \in 1..attnIn.slices : \A i, j \in 1..attnIn.len :
         j > i => attnLast.probs[s][i][j].n = 0

\* C6 witness: a causal forward call on the longest sequence in training
\* mode with dropout 1/2, some allowed position keeping a non-zero
\* probability.
C6_Witness ==
  /\ attnLast.op = "forward"
  /\ attn.causal
  /\ attnLast.tr
  /\ attn.pNum = 1
  /\ attnIn.len = MaxSeq
  /\ attnIn.slices = MaxSlices
  /\ \E s \in 1..attnIn.slices : \E i, j \in 1..attnIn.len :
       j < i /\ attnLast.probs[s][i][j].n # 0

(***************************************************************************)
(* Part 4: Conv and AttentionLayer on shapes.  A tensor is its shape, a     *)
(* tuple of positive integers; an operation the shapes do not allow raises. *)
(***************************************************************************)

\* Bounds: batch size, sequence length, feature count, head count and head
\* width, kernel size, image height and width, channel count.
MaxBatchSize == 2
MaxLen == 3
MaxFeatures == 2
MaxHeads == 2
MaxKernel == 4
MaxSpatial == 4
MaxChannels == 2

\* The outcome of an operation that raised.
Raised == <<-1>>

\* A tensor argument or a feature count left at its default None.
NoneShape == <<>>
NoneInt == 0

RECURSIVE Prod(_)
Prod(s) == IF s = <<>> THEN 1 ELSE Head(s) * Prod(Tail(s))

\* x.reshape(new): the element counts must agree.
ShapeReshape(s, new) == IF s = Raised \/ Prod(s) # Prod(new) THEN Raised ELSE new

\* x.transpose((a, b)): axes a and b (counted from 0) swapped.
ShapeTranspose(s, a, b) ==
  IF s = Raised \/ Len(s) <= a \/ Len(s) <= b THEN Raised
  ELSE [i \in 1..Len(s) |-> IF i = a + 1 THEN s[b + 1] ELSE IF i = b + 1 THEN s[a + 1] ELSE s[i]]

\* x.broadcast_to(target): same rank, every axis equal to the target's or 1.
ShapeBroadcastTo(s, target) ==
  IF s = Raised \/ target = Raised \/ Len(s) # Len(target) THEN Raised
  ELSE IF \A i \in 1..Len(s) : s[i] = target[i] \/ s[i] = 1 THEN target ELSE Raised

\* a * b, a + b, a / b on tensors: element-wise, the shapes must be equal.
ShapeEWise(a, b) == IF a = Raised \/ b = Raised \/ a # b THEN Raised ELSE a

\* x.sum(axis): the axis (counted from 0) removed.
ShapeSum(s, axis) ==
  IF s = Raised \/ Len(s) <= axis THEN Raised
  ELSE SubSeq(s, 1, axis) \o SubSeq(s, axis + 2, Len(s))

\* X @ W for a 2-d X and a 2-d W
ShapeMatMul(x, w) ==
  IF x = Raised \/ Len(x) # 2 \/ x[2] # w[1] THEN Raised ELSE <<x[1], w[2]>>

\* ops.conv(x, weight, stride, padding): x is NHWC, weight is (K, K, C_in,
\* C_out); each spatial size becomes (in + 2 * padding - K) // stride + 1.
ConvOutSize(in, k, stride, padding) == (in + 2 * padding - k) \div stride + 1

ShapeConv(x, w, stride, padding) ==
  IF x = Raised \/ Len(x) # 4 \/ x[4] # w[3] THEN Raised
  ELSE <<x[1], ConvOutSize(x[2], w[1], stride, padding),
         ConvOutSize(x[3], w[2], stride, padding), w[4]>>

\* Conv.__init__: the fields of the module.
ConvInit(in_channels, out_channels, kernel_size, stride, bias) ==
  [in_channels |-> in_channels, out_channels |-> out_channels,
   kernel_size |-> kernel_size, stride |-> stride,
   padding |-> (kernel_size - 1) \div 2,
   weight |-> <<kernel_size, kernel_size, in_channels, out_channels>>,
   bias |-> IF bias THEN <<out_channels>> ELSE NoneShape]

\* Conv.forward(x)
ConvForwardShape(self, x) ==
  LET nhwc_x == ShapeTranspose(ShapeTranspose(x, 1, 2), 2, 3)
      nhwc_output == ShapeConv(nhwc_x, self.weight, self.stride, self.padding)
      with_bias == IF self.bias # NoneShape
                   THEN ShapeEWise(nhwc_output,
                          ShapeBroadcastTo(ShapeReshape(self.bias, <<1, 1, 1, self.out_channels>>),
                                           nhwc_output))
                   ELSE nhwc_output
  IN ShapeTranspose(ShapeTranspose(with_bias, 2, 3), 1, 2)

\* MultiHeadAttention.matmul(a, b_transpose) with the reduction on the axis
\* before the last one.
MHAMatmulRows(a, b_transpose) ==
  LET n == Len(a) + 1
      a_shape == SubSeq(a, 1, Len(a) - 1) \o <<1>> \o <<a[Len(a)]>>
      b_transpose_shape == SubSeq(b_transpose, 1, Len(b_transpose) - 2) \o <<1>>
                             \o SubSeq(b_transpose, Len(b_transpose) - 1, Len(b_transpose))
      a2 == ShapeBroadcastTo(ShapeReshape(a, a_shape),
                             [a_shape EXCEPT ![n - 1] = b_transpose_shape[n - 1]])
      b2 == ShapeBroadcastTo(ShapeReshape(b_transpose, b_transpose_shape),
                             [b_transpose_shape EXCEPT ![n - 2] = a_shape[n - 2]])
  IN ShapeSum(ShapeEWise(a2, b2), n - 2)

\* MultiHeadAttention.matmul(a, b_transpose)
MHAMatmul(a, b_transpose) ==
  IF a = Raised \/ b_transpose = Raised \/ Len(a) # Len(b_transpose) THEN Raised
  ELSE
  LET n == Len(a) + 1
      a_shape == SubSeq(a, 1, Len(a) - 1) \o <<1>> \o <<a[Len(a)]>>
      b_transpose_shape == SubSeq(b_transpose, 1, Len(b_transpose) - 2) \o <<1>>
                             \o SubSeq(b_transpose, Len(b_transpose) - 1, Len(b_transpose))
      a2 == ShapeBroadcastTo(ShapeReshape(a, a_shape),
                             [a_shape EXCEPT ![n - 1] = b_transpose_shape[n - 1]])
      b2 == ShapeBroadcastTo(ShapeReshape(b_transpose, b_transpose_shape),
                             [b_transpose_shape EXCEPT ![n - 2] = a_shape[n - 2]])
  IN ShapeSum(ShapeEWise(a2, b2), n - 1)

\* MultiHeadAttention.softmax(logit): the row maximum and the row sum are
\* reshaped to (..., 1) and broadcast back.
MHASoftmax(logit) ==
  IF logit = Raised \/ Len(logit) # 4 THEN Raised
  ELSE LET keep1 == SubSeq(logit, 1, 3) \o <<1>>
           max_val == ShapeBroadcastTo(ShapeReshape(ShapeSum(logit, 3), keep1), logit)
           probs == ShapeEWise(logit, max_val)
           denom == ShapeBroadcastTo(ShapeReshape(ShapeSum(probs, 3), keep1), logit)
       IN ShapeEWise(probs, denom)

\* MultiHeadAttention.forward(q, k, v): the shape of `result`.
MHAForwardShape(causal, q, k, v) ==
  IF q = Raised \/ k = Raised \/ v = Raised THEN Raised
  ELSE IF ~(q[4] = k[4] /\ k[4] = v[4]) THEN Raised
  ELSE LET logits == MHAMatmul(q, k)
           mask == ShapeBroadcastTo(ShapeReshape(<<1, 1, q[3], k[3]>>, <<1, 1, q[3], k[3]>>),
                                    logits)
           masked == IF causal THEN ShapeEWise(logits, mask) ELSE logits
           probs == MHASoftmax(masked)
       IN MHAMatmul(probs, ShapeTranspose(v, 2, 3))

\* LayerNorm1d.forward(x): asserts the last axis, keeps the shape.
LayerNorm1dShape(dim, x) ==
  IF x = Raised \/ x[Len(x)] # dim THEN Raised ELSE x

\* Linear.forward(X) without bias.
LinearShape(in_features, out_features, x) == ShapeMatMul(x, <<in_features, out_features>>)

\* AttentionLayer.__init__: the fields of the module.
AttentionLayerInit(q_features, num_head, dim_head, k_features, v_features, out_features, causal) ==
  [q_features |-> q_features,
   k_features |-> IF k_features = NoneInt THEN q_features ELSE k_features,
   v_features |-> IF v_features = NoneInt THEN q_features ELSE v_features,
   out_features |-> IF out_features = NoneInt THEN q_features ELSE out_features,
   num_head |-> num_head, dim_head |-> dim_head, causal |-> causal]

\* The last reshape of AttentionLayer.forward, with the length of k and v.
ResultShapeKvLen(self, batch_size, queries_len, keys_values_len) ==
  <<batch_size, keys_values_len, self.out_features>>

\* The last reshape of AttentionLayer.forward: the shape asked for.
ResultShape(self, batch_size, queries_len, keys_values_len) ==
  <<batch_size, queries_len, self.out_features>>

\* normalise, project and split into heads: one of the three input branches
\* of AttentionLayer.forward.
ProjectHeads(self, features, x, batch_size, len, dim) ==
  ShapeTranspose(
    ShapeReshape(
      LinearShape(features, self.num_head * self.dim_head,
                  LayerNorm1dShape(features, ShapeReshape(x, <<batch_size * len, dim>>))),
      <<batch_size, len, self.num_head, self.dim_head>>),
    1, 2)

\* AttentionLayer.forward(q, k, v)
AttentionLayerForward(self, q, kArg, vArg) ==
  LET k == IF kArg = NoneShape THEN q ELSE kArg
      v == IF vArg = NoneShape THEN q ELSE vArg
      batch_size == q[1]
      queries_len == q[2]
      keys_values_len == k[2]
      Q == ProjectHeads(self, self.q_features, q, batch_size, queries_len, q[3])
      K == ProjectHeads(self, self.k_features, k, batch_size, keys_values_len, k[3])
      V == ProjectHeads(self, self.v_features, v, batch_size, keys_values_len, v[3])
      X == ShapeReshape(ShapeTranspose(MHAForwardShape(self.causal, Q, K, V), 1, 2),
                        <<batch_size, queries_len, self.num_head * self.dim_head>>)
      projected == LinearShape(self.num_head * self.dim_head, self.out_features,
                               ShapeReshape(X, <<batch_size * queries_len,
                                                 self.num_head * self.dim_head>>))
  IN ShapeReshape(projected, ResultShape(self, batch_size, queries_len, keys_values_len))

ConvInputs(self) ==
  {<<n, self.in_channels, h, w>> : n \in 1..MaxBatchSize,
     h \in (self.kernel_size - 2 * self.padding)..MaxSpatial,
     w \in (self.kernel_size - 2 * self.padding)..MaxSpatial}

ConvModuleInit ==
  /\ conv \in {ConvInit(ci, co, ks, 1, b) : ci \in 1..MaxChannels, co \in 1..MaxChannels,
                                            ks \in 1..MaxKernel, b \in BOOLEAN}
  /\ convIn \in ConvInputs(conv)
  /\ convLast = [op |-> "none", out |-> NoneShape]

\* conv(x)
ConvForward ==
  /\ convLast' = [op |-> "forward", out |-> ConvForwardShape(conv, convIn)]
  /\ UNCHANGED <<conv, convIn>>
  /\ UNCHANGED ConvFrame

\* the caller drops the result
ConvDiscard ==
  /\ convLast.op = "forward"
  /\ convLast' = [op |-> "none", out |-> NoneShape]
  /\ UNCHANGED <<conv, convIn>>
  /\ UNCHANGED ConvFrame

ConvNext == ConvForward \/ ConvDiscard

LayerArgs ==
  [q_features : 1..MaxFeatures, num_head : 1..MaxHeads, dim_head : 1..MaxHeads,
   k_features : {NoneInt} \cup 1..MaxFeatures, v_features : {NoneInt} \cup 1..MaxFeatures,
   out_features : {NoneInt} \cup 1..MaxFeatures, causal : BOOLEAN]

LayerInputs(self) ==
  [q : {<<b, l, self.q_features>> : b \in 1..MaxBatchSize, l \in 1..MaxLen},
   k : {<<b, l, self.k_features>> : b \in 1..MaxBatchSize, l \in 1..MaxLen},
   v : {<<b, l, self.v_features>> : b \in 1..MaxBatchSize, l \in 1..MaxLen}]

NoLayerCall == [op |-> "none", k |-> NoneShape, v |-> NoneShape, out |-> NoneShape]

LayerInit ==
  /\ layerArgs \in LayerArgs
  /\ layer = AttentionLayerInit(layerArgs.q_features, layerArgs.num_head, layerArgs.dim_head,
                                layerArgs.k_features, layerArgs.v_features,
                                layerArgs.out_features, layerArgs.causal)
  /\ layerIn \in {i \in LayerInputs(layer) : i.q[1] = i.k[1] /\ i.k[1] = i.v[1]}
  /\ layerLast = NoLayerCall

\* layer(q), layer(q, k), layer(q, v=v) or layer(q, k, v)
LayerForward(passK, passV) ==
  /\ layerLast' =
       [op |-> "forward",
        k |-> IF passK THEN layerIn.k ELSE NoneShape,
        v |-> IF passV THEN layerIn.v ELSE NoneShape,
        out |-> AttentionLayerForward(layer, layerIn.q,
                                      IF passK THEN layerIn.k ELSE NoneShape,
                                      IF passV THEN layerIn.v ELSE NoneShape)]
  /\ UNCHANGED <<layerArgs, layer, layerIn>>
  /\ UNCHANGED LayerFrame

LayerNext == \E passK, passV \in BOOLEAN : LayerForward(passK, passV)

\* C9: with stride 1, for every kernel_size >= 1 and every input height and
\* width, the padding is (kernel_size - 1) // 2 and a (N, C_in, H, W) input
\* gives a (N, C_out, H, W) output.
C9_SamePadding ==
  (convLast.op = "forward" /\ conv.stride = 1) =>
    /\ conv.padding = (conv.kernel_size - 1) \div 2
    /\ convLast.out = <<convIn[1], conv.out_channels, convIn[2 + 1], convIn[2 + 2]>>

\* The k and v a forward call works on, and whether the call is one the
\* claim covers: q, k and v carry the layer's feature counts and k and v
\* have the same length.
EffectiveK == IF layerLast.k = NoneShape THEN layerIn.q ELSE layerLast.k
EffectiveV == IF layerLast.v = NoneShape THEN layerIn.q ELSE layerLast.v

CoveredCall ==
  /\ layerLast.op = "forward"
  /\ layerIn.q[3] = layer.q_features
  /\ EffectiveK[3] = layer.k_features
  /\ EffectiveV[3] = layer.v_features
  /\ EffectiveK[2] = EffectiveV[2]

ExpectedOutFeatures ==
  IF layerArgs.out_features = NoneInt THEN layerArgs.q_features ELSE layerArgs.out_features

TreeIdle ==
  /\ heap = [n \in Nodes |-> [kind |-> IF n = Root THEN "Module" ELSE "other", items |-> <<>>]]
  /\ training = [n \in Nodes |-> TRUE]
  /\ lastToggle = [op |-> "none", target |-> Root]
  /\ result = [op |-> "none", of |-> Root, params |-> <<>>]

\* The BatchNorm network left alone: as constructed.
BNIdle ==
  /\ BNInit
  /\ bnNet.cls = "BatchNorm1d"
  /\ bnNet.linIn = Dim

\* The attention module left alone: as constructed with the defaults.
AttnIdle ==
  /\ attn = [causal |-> FALSE, pNum |-> 0, pDen |-> 2, training |-> TRUE, dropTraining |-> TRUE]
  /\ attnIn = [slices |-> 1, len |-> 1, q |-> <<<<<<0>>>>>>, k |-> <<<<<<0>>>>>>]
  /\ attnLast = NoForward

\* The Conv module left alone: a 1x1 kernel and a 1x1 image.
ConvIdle ==
  /\ conv = ConvInit(1, 1, 1, 1, TRUE)
  /\ convIn = <<1, 1, 1, 1>>
  /\ convLast = [op |-> "none", out |-> NoneShape]

\* The AttentionLayer module left alone: one head of width 1.
LayerIdle ==
  /\ layerArgs = [q_features |-> 1, num_head |-> 1, dim_head |-> 1, k_features |-> NoneInt,
                  v_features |-> NoneInt, out_features |-> NoneInt, causal |-> TRUE]
  /\ layer = AttentionLayerInit(1, 1, 1, NoneInt, NoneInt, NoneInt, TRUE)
  /\ layerIn = [q |-> <<1, 1, 1>>, k |-> <<1, 1, 1>>, v |-> <<1, 1, 1>>]
  /\ layerLast = NoLayerCall

\* The state each specification starts from.
InitTree == TreeInit /\ BNIdle /\ AttnIdle /\ ConvIdle /\ LayerIdle
InitBN == BNInit /\ TreeIdle /\ AttnIdle /\ ConvIdle /\ LayerIdle
InitAttn == AttnInit /\ TreeIdle /\ BNIdle /\ ConvIdle /\ LayerIdle
InitConv == ConvModuleInit /\ TreeIdle /\ BNIdle /\ AttnIdle /\ LayerIdle
InitLayer == LayerInit /\ TreeIdle /\ BNIdle /\ AttnIdle /\ ConvIdle

SpecTree == InitTree /\ [][TreeNext]_vars
SpecBN == InitBN /\ [][BNNext]_vars
SpecAttn == InitAttn /\ [][AttnNext]_vars
SpecConv == InitConv /\ [][ConvNext]_vars
SpecLayer == InitLayer /\ [][LayerNext]_vars

====
